---- MODULE Spec2Model ----
(***************************************************************************)
(* Model of the IoT predictive-maintenance pipeline:                       *)
(*   src/lambda/inference_and_alert.py  (inference handler)                *)
(*   src/lambda/data_transformer.py     (transformer handler)              *)
(*   src/lambda/terraform_iot_event.py  (IoT event handler)                *)
(*   src/glue/etl_job.py                (batch ETL job)                    *)
(*                                                                         *)
(* Sensor values are fixed-point integers in thousandths, so 80 is 80000,  *)
(* 2.0 is 2000 and the epsilon 0.001 is 1.  A quotient is kept as the      *)
(* exact pair <<numerator, denominator>>.                                  *)
(***************************************************************************)
EXTENDS Integers, Sequences, FiniteSets, TLC

\* ------------------------------------------------------------------------
\* Bounds of the model
\* ------------------------------------------------------------------------
MaxRecords == 3

\* ------------------------------------------------------------------------
\* Program constants
\* ------------------------------------------------------------------------
MAX_RETRIES == 3
RETRY_DELAY == 1
EPSILON == 1
ETL_TEMP_THRESHOLD == 80000
ETL_VIB_THRESHOLD == 2000
ETL_PRESSURE_THRESHOLD == 150000
IOT_TEMP_THRESHOLD == 85000
IOT_VIB_THRESHOLD == 2000
IOT_PRESSURE_THRESHOLD == 110000
NOW == 7

\* ------------------------------------------------------------------------
\* JSON values of a payload.  Every field of a payload holds a value
\* [k, v]: k = "absent" (key not in the dict), "none" (Python None),
\* "num" (JSON number v), "str" (string whose text is the number v),
\* "bad" (string that is no number), "id" (machine identifier v).
\* ------------------------------------------------------------------------
Absent == [k |-> "absent", v |-> 0]
None == [k |-> "none", v |-> 0]
Bad == [k |-> "bad", v |-> 0]
Num(x) == [k |-> "num", v |-> x]
Str(x) == [k |-> "str", v |-> x]
MID(x) == [k |-> "id", v |-> x]
unknown == MID(0)

\* `field in data`
Has(data, f) == data[f].k # "absent"
\* dict.get(f): None when the key is absent
Get(data, f) == IF Has(data, f) THEN data[f] ELSE None

\* Python float(x): the number for a number or a numeric string,
\* TypeError for None, ValueError for a non-numeric string.
float(x) ==
    CASE x.k = "num" -> [exc |-> "none", val |-> x.v]
      [] x.k = "str" -> [exc |-> "none", val |-> x.v]
      [] x.k = "none" -> [exc |-> "TypeError", val |-> 0]
      [] x.k = "id" -> [exc |-> "ValueError", val |-> 0]
      [] OTHER -> [exc |-> "ValueError", val |-> 0]

\* Python int(x) for a timestamp
int(x) ==
    CASE x.k = "num" -> [exc |-> "none", val |-> x.v]
      [] x.k = "str" -> [exc |-> "none", val |-> x.v]
      [] x.k = "none" -> [exc |-> "TypeError", val |-> 0]
      [] OTHER -> [exc |-> "ValueError", val |-> 0]

Ok(r) == r.exc = "none"

\* ------------------------------------------------------------------------
\* src/lambda/inference_and_alert.py
\* ------------------------------------------------------------------------
SensorFields == <<"temperature", "vibration", "pressure">>

\* index of the first field of fs (from position i) missing in data, 0 if none
RECURSIVE FirstMissing(_, _, _)
FirstMissing(data, fs, i) ==
    IF i > Len(fs) THEN 0
    ELSE IF ~Has(data, fs[i]) THEN i
    ELSE FirstMissing(data, fs, i + 1)

MissingMsg(f) ==
    CASE f = "temperature" -> "Missing required field: temperature"
      [] f = "vibration" -> "Missing required field: vibration"
      [] f = "pressure" -> "Missing required field: pressure"
      [] f = "machine_id" -> "Missing required field: machine_id"
      [] OTHER -> "Missing required field: timestamp"

InRange(x, lo, hi) == lo <= x /\ x <= hi

\* validate_sensor_data: raises DataValidationError or returns True; the
\* range checks only log a warning (field warn).
validate_sensor_data(data) ==
    LET m == FirstMissing(data, SensorFields, 1)
        t == float(data["temperature"])
        v == float(data["vibration"])
        p == float(data["pressure"])
    IN  IF m # 0
        THEN [exc |-> "DataValidationError", msg |-> MissingMsg(SensorFields[m]),
              warn |-> FALSE]
        ELSE IF ~Ok(t) \/ ~Ok(v) \/ ~Ok(p)
        THEN [exc |-> "DataValidationError", msg |-> "Invalid data type",
              warn |-> FALSE]
        ELSE [exc |-> "none", msg |-> "",
              warn |-> ~InRange(t.val, 0, 200000) \/ ~InRange(v.val, 0, 10000)
                          \/ ~InRange(p.val, 0, 200000)]

NoFeatures ==
    [temperature |-> 0, vibration |-> 0, pressure |-> 0,
     temp_vib_ratio |-> <<0, 1>>, pressure_temp_ratio |-> <<0, 1>>]

\* prepare_features: the two quotients divide by value + 0.001; Python
\* raises ZeroDivisionError when that denominator is 0.0.
prepare_features(data) ==
    LET t == float(data["temperature"])
        v == float(data["vibration"])
        p == float(data["pressure"])
    IN  IF ~Ok(t) THEN [exc |-> t.exc, val |-> NoFeatures]
        ELSE IF ~Ok(v) THEN [exc |-> v.exc, val |-> NoFeatures]
        ELSE IF ~Ok(p) THEN [exc |-> p.exc, val |-> NoFeatures]
        ELSE IF v.val + EPSILON = 0 \/ t.val + EPSILON = 0
        THEN [exc |-> "ZeroDivisionError", val |-> NoFeatures]
        ELSE [exc |-> "none",
              val |-> [temperature |-> t.val, vibration |-> v.val,
                       pressure |-> p.val,
                       temp_vib_ratio |-> <<t.val, v.val + EPSILON>>,
                       pressure_temp_ratio |-> <<p.val, t.val + EPSILON>>]]

\* Reply of the model endpoint to one invoke_endpoint call: the call raises
\* (k = "error"), or the body is the text of an integer (k = "text"), or the
\* body is a JSON object (k = "json").
\* src/sagemaker/inference.py output_fn (lines 125-149): the body the
\* endpoint sends for a prediction -- the JSON object {"prediction": p,
\* "prediction_label": ..., "confidence": 0.8} for accept 'application/json'
\* (the default), str(p) for any other accept type
AcceptTypes == {"application/json", "text/plain"}
output_fn(p, accept) ==
    IF accept = "application/json" THEN [k |-> "json", v |-> p] ELSE [k |-> "text", v |-> p]

EndpointReplies ==
    {[k |-> "error", v |-> 0]} \cup {output_fn(p, a) : p \in {0, 1}, a \in AcceptTypes}

\* invoke_sagemaker_endpoint: int(body) of the reply; every exception becomes
\* AnomalyDetectionError.
invoke_sagemaker_endpoint(reply) ==
    IF reply.k = "text"
    THEN [exc |-> "none", val |-> Num(reply.v)]
    ELSE [exc |-> "AnomalyDetectionError", val |-> None]

\* send_alert: publishes only for prediction == 1; a failing publish is
\* logged and swallowed.  Returns the publish attempts to append.
send_alert_Always(mid, data, pred, snsOk) ==
    <<[alert_type |-> "anomaly_detected", machine_id |-> mid, sensor_data |-> data,
       prediction |-> pred, severity |-> "high", delivered |-> snsOk]>>
send_alert(mid, data, pred, snsOk) ==
    IF pred = Num(1)
    THEN <<[alert_type |-> "anomaly_detected", machine_id |-> mid,
            sensor_data |-> data, prediction |-> pred, severity |-> "high",
            delivered |-> snsOk]>>
    ELSE <<>>

\* put_metrics: one put_metric_data call carrying the five metrics; float()
\* of the sensor values happens before the call, any exception is swallowed.
put_metrics(mid, data, pred, cwOk) ==
    LET t == float(data["temperature"])
        v == float(data["vibration"])
        p == float(data["pressure"])
    IN  IF Ok(t) /\ Ok(v) /\ Ok(p)
        THEN <<[machine_id |-> mid, Temperature |-> t.val, Vibration |-> v.val,
                Pressure |-> p.val, AnomalyPrediction |-> pred,
                delivered |-> cwOk]>>
        ELSE <<>>

\* ------------------------------------------------------------------------
\* Inputs
\* ------------------------------------------------------------------------
TempVals == {-5000, -1, 80000, 82000, 90000}
VibVals == {-1, 1000, 2000, 2500}
PresVals == {100000, 120000, 150000, 160000}

Reading(m, ts, t, v, p) ==
    [machine_id |-> m, timestamp |-> ts, temperature |-> t, vibration |-> v,
     pressure |-> p]

\* well-typed readings with numbers
NumReadings ==
    {Reading(MID(1), Num(1), Num(t), Num(v), Num(p)) :
        t \in TempVals, v \in VibVals, p \in PresVals}

Fields == {"machine_id", "timestamp", "temperature", "vibration", "pressure"}
Metrics == {"temperature", "vibration", "pressure"}

Normal == Reading(MID(1), Num(1), Num(78000), Num(1000), Num(100000))
Hot == Reading(MID(1), Num(2), Num(90000), Num(1000), Num(100000))
Warm == Reading(MID(1), Num(3), Num(82000), Num(1000), Num(100000))

\* the reading r with its metrics given as numeric strings
Stringify(r) ==
    [f \in Fields |-> IF f \in Metrics /\ r[f].k = "num" THEN Str(r[f].v) ELSE r[f]]

\* one-field deviations of a reading: a field absent, a metric that is a
\* non-numeric string or null, a timestamp that is no integer
Deviations(r) ==
    {[r EXCEPT ![f] = Absent] : f \in Fields}
        \cup {[r EXCEPT ![f] = Bad] : f \in Metrics \cup {"timestamp"}}
        \cup {[r EXCEPT ![f] = None] : f \in Metrics}

Payloads ==
    NumReadings \cup {Stringify(r) : r \in {Normal, Hot}} \cup {Normal, Hot}
        \cup Deviations(Normal) \cup Deviations(Hot)
        \cup {[Normal EXCEPT !["machine_id"] = MID(2)]}

\* Drift exceeds Normal by exactly the trend deltas (5, 0.5, 10) and is a
\* reading of another machine; Surge exceeds both by more than the deltas
Drift == Reading(MID(2), Num(3), Num(83000), Num(1500), Num(110000))
Surge == Reading(MID(1), Num(2), Num(90000), Num(2500), Num(115000))

\* payloads of the transformer's events
TransformerPayloads ==
    {Normal, Stringify(Surge), Drift, [Normal EXCEPT !["temperature"] = Bad]}
        \cup {[Normal EXCEPT ![f] = Absent] : f \in Fields}

\* payloads of the IoT event handler's events
IotPayloads ==
    {Normal, Hot, Warm, Stringify(Hot), [Normal EXCEPT !["temperature"] = Bad],
     [Hot EXCEPT !["pressure"] = Absent]}
        \cup {[Normal EXCEPT ![f] = Absent] : f \in Fields}

\* a record of an event: src is the key that holds the data ("kinesis",
\* "body" or "other" when neither is there), ok says whether the data is
\* decodable JSON, payload is the decoded object.
Rec(src, ok, p) == [src |-> src, ok |-> ok, payload |-> p]
Garbage == Rec("kinesis", FALSE, Normal)

SeqsUpTo(S, n) == UNION {[1..k -> S] : k \in 0..n}

\* events: no Records key (<<>> has no key), or Records of 0..MaxRecords
NoRecordsKey == [Records |-> <<>>, has |-> FALSE]
Event(rs) == [Records |-> rs, has |-> TRUE]

\* ------------------------------------------------------------------------
\* State
\* ------------------------------------------------------------------------
VARIABLES
    handler,            \* the entry point this run executes
    event,              \* its input event
    pc,                 \* position in the handler
    idx,                \* loop index over records (1-based)
    machine_id,         \* inference handler: local machine_id
    sensor_data,        \* inference handler: local sensor_data
    features,           \* inference handler: local features
    attempt,            \* inference handler: loop variable of the retry loop
    invocations,        \* outcome of every endpoint invocation, in order
    sleeps,             \* argument of every time.sleep call, in order
    prediction,         \* inference handler: local prediction
    snsLog,             \* sns.publish calls
    cwLog,              \* cloudwatch.put_metric_data calls
    processed_records,  \* transformer: local processed_records
    errors,             \* per-record errors the handler logged
    kinesisLog,         \* kinesis.put_record calls
    firehoseLog,        \* firehose.put_record calls
    etl,                \* ETL job: what it wrote and returned
    result,             \* what a function that was called directly returned
    frames,             \* frames of that function on the interpreter's stack
    replies,            \* inference handler: what the endpoint answered, in order
    response            \* what the handler returned (statusCode 0: not yet;
                        \* statusCode -1: it raised)

vars ==
    <<handler, event, pc, idx, machine_id, sensor_data, features, attempt,
      invocations, sleeps, prediction, snsLog, cwLog, processed_records,
      errors, kinesisLog, firehoseLog, etl, result, frames, replies, response>>

Resp(code, err, msg, mid, pred, n) ==
    [statusCode |-> code, error |-> err, message |-> msg, machine_id |-> mid,
     prediction |-> pred, processed_records |-> n]
NoResponse == Resp(0, "", "", unknown, None, 0)
Failure(code, err, msg) == Resp(code, err, msg, unknown, None, 0)
\* the handler did not catch the exception exc
Raised(exc) == Resp(-1, "Unhandled", exc, unknown, None, 0)

NoEtl ==
    [processed_data |-> <<>>, machine_stats |-> <<>>, anomaly_records |-> 0,
     anomaly_summary |-> <<>>]

NoSensorData == [f \in Metrics |-> None]

NoResult == [function |-> "none"]

InitCommon ==
    /\ pc = "start"
    /\ idx = 1
    /\ machine_id = unknown
    /\ sensor_data = NoSensorData
    /\ features = NoFeatures
    /\ attempt = 0
    /\ invocations = <<>>
    /\ sleeps = <<>>
    /\ prediction = None
    /\ snsLog = <<>>
    /\ cwLog = <<>>
    /\ processed_records = <<>>
    /\ errors = <<>>
    /\ kinesisLog = <<>>
    /\ firehoseLog = <<>>
    /\ etl = NoEtl
    /\ result = NoResult
    /\ frames = 0
    /\ replies = <<>>
    /\ response = NoResponse

\* ------------------------------------------------------------------------
\* src/lambda/inference_and_alert.py: lambda_handler
\* ------------------------------------------------------------------------
InferenceRecords ==
    {Rec("kinesis", TRUE, p) : p \in Payloads}
        \cup {Garbage, Rec("body", TRUE, Hot), Rec("other", TRUE, Normal)}
InferenceTail == {Rec("kinesis", TRUE, Hot), Garbage}

InferenceEvents ==
    {NoRecordsKey, Event(<<>>)}
        \cup {Event(<<r>> \o t) :
                r \in InferenceRecords, t \in SeqsUpTo(InferenceTail, MaxRecords - 1)}

InitInference ==
    /\ handler = "inference"
    /\ event \in InferenceEvents
    /\ InitCommon

\* lines 244-249: machine_id and sensor_data are read with dict.get
ExtractSensorData_Default(payload) ==
    [f \in Metrics |-> IF Has(payload, f) THEN payload[f] ELSE Num(0)]
ExtractMachineId(payload) ==
    IF Has(payload, "machine_id") THEN payload["machine_id"] ELSE unknown
ExtractSensorData(payload) == [f \in Metrics |-> Get(payload, f)]

\* line 231: record = event['Records'][0]
FirstRecord_Last(ev) == ev.Records[Len(ev.Records)]
FirstRecord(ev) == ev.Records[1]

\* lines 226-255: from the event to the prepared features
InferenceStart ==
    /\ handler = "inference"
    /\ pc = "start"
    /\ UNCHANGED <<handler, event, result, frames, replies,
                   etl, idx, attempt, invocations, sleeps, prediction,
                   snsLog, cwLog, processed_records, errors, kinesisLog,
                   firehoseLog>>
    /\ IF ~event.has \/ event.Records = <<>>
       THEN /\ response' = Failure(400, "Data validation failed",
                                   "No records found in event")
            /\ pc' = "done"
            /\ UNCHANGED <<machine_id, sensor_data, features>>
       ELSE LET record == FirstRecord(event) IN
            IF record.src = "other"
            THEN /\ response' = Failure(500, "Internal server error", "KeyError")
                 /\ pc' = "done"
                 /\ UNCHANGED <<machine_id, sensor_data, features>>
            ELSE IF ~record.ok
            THEN /\ response' = Failure(500, "Internal server error",
                                        "JSONDecodeError")
                 /\ pc' = "done"
                 /\ UNCHANGED <<machine_id, sensor_data, features>>
            ELSE LET sd == ExtractSensorData(record.payload)
                     valid == validate_sensor_data(sd)
                     feat == prepare_features(sd)
                 IN  /\ machine_id' = ExtractMachineId(record.payload)
                     /\ sensor_data' = sd
                     /\ IF ~Ok(valid)
                        THEN /\ response' = Failure(400, "Data validation failed",
                                                    valid.msg)
                             /\ pc' = "done"
                             /\ UNCHANGED features
                        ELSE IF ~Ok(feat)
                        THEN /\ response' = Failure(500, "Internal server error",
                                                    feat.exc)
                             /\ pc' = "done"
                             /\ UNCHANGED features
                        ELSE /\ features' = feat.val
                             /\ pc' = "invoke"
                             /\ UNCHANGED response

\* line 267: the argument of time.sleep after a failed attempt
Backoff_Constant(a) == RETRY_DELAY
Backoff(a) == RETRY_DELAY * (a + 1)

\* lines 259-267: one pass of the retry loop
InferenceInvoke ==
    /\ handler = "inference"
    /\ pc = "invoke"
    /\ UNCHANGED <<handler, event, result, frames, etl, idx, machine_id, sensor_data,
                   features, snsLog, cwLog, processed_records, errors, kinesisLog,
                   firehoseLog>>
    /\ \E reply \in EndpointReplies :
         LET r == invoke_sagemaker_endpoint(reply) IN
         /\ replies' = Append(replies, reply)
         /\ IF Ok(r)
            THEN /\ invocations' = Append(invocations, "ok")
                 /\ prediction' = r.val
                 /\ pc' = "emit"
                 /\ UNCHANGED <<attempt, sleeps, response>>
            ELSE /\ invocations' = Append(invocations, "failed")
                 /\ UNCHANGED prediction
                 /\ IF attempt = MAX_RETRIES - 1
                    THEN /\ response' = Failure(500, "Anomaly detection failed",
                                                "Inference failed")
                         /\ pc' = "done"
                         /\ UNCHANGED <<attempt, sleeps>>
                    ELSE /\ sleeps' = Append(sleeps, Backoff(attempt))
                         /\ attempt' = attempt + 1
                         /\ UNCHANGED <<pc, response>>

\* lines 269-288: alert, metrics and the 200 response
InferenceEmit ==
    /\ handler = "inference"
    /\ pc = "emit"
    /\ UNCHANGED <<handler, event, result, frames, replies,
                   etl, idx, machine_id, sensor_data, features, attempt,
                   invocations, sleeps, prediction, processed_records, errors,
                   kinesisLog, firehoseLog>>
    /\ \E snsOk \in BOOLEAN, cwOk \in BOOLEAN :
         /\ snsLog' = snsLog \o send_alert(machine_id, sensor_data, prediction, snsOk)
         /\ cwLog' = cwLog \o put_metrics(machine_id, sensor_data, prediction, cwOk)
    /\ response' = Resp(200, "", "", machine_id, prediction, 0)
    /\ pc' = "done"

NextInference == InferenceStart \/ InferenceInvoke \/ InferenceEmit

SpecInference == InitInference /\ [][NextInference]_vars

\* ------------------------------------------------------------------------
\* src/lambda/data_transformer.py
\* ------------------------------------------------------------------------
TEMP_TREND_DELTA == 5000
VIB_TREND_DELTA == 500
PRESSURE_TREND_DELTA == 10000

RECURSIVE SeqSum(_)
SeqSum(xs) == IF xs = <<>> THEN 0 ELSE xs[1] + SeqSum(Tail(xs))

SeqMin(xs) == CHOOSE m \in {xs[i] : i \in DOMAIN xs} : \A i \in DOMAIN xs : m <= xs[i]
SeqMax(xs) == CHOOSE m \in {xs[i] : i \in DOMAIN xs} : \A i \in DOMAIN xs : m >= xs[i]

\* statistics.mean: the exact quotient sum / n
mean(xs) == <<SeqSum(xs), Len(xs)>>

\* sum of (x - mean)^2 times n, computed exactly as the sum over all pairs
\* i < j of (x_i - x_j)^2
SquaredDeviationsTimesN(xs) ==
    LET pairs == {q \in (DOMAIN xs) \X (DOMAIN xs) : q[1] < q[2]}
        sq[S \in SUBSET pairs] ==
            IF S = {} THEN 0
            ELSE LET q == CHOOSE x \in S : TRUE
                 IN  (xs[q[1]] - xs[q[2]]) * (xs[q[1]] - xs[q[2]]) + sq[S \ {q}]
    IN  sq[pairs]

\* statistics.stdev: the sample standard deviation, sqrt(ss / (n - 1)); kept
\* as its square, the exact quotient (n * ss) / (n * (n - 1))
stdev(xs) == <<SquaredDeviationsTimesN(xs), Len(xs) * (Len(xs) - 1)>>

Column(records, f) == [i \in DOMAIN records |-> float(records[i][f]).val]

MetricStats_Unguarded(xs) ==
    [mean |-> mean(xs), std |-> stdev(xs), min |-> SeqMin(xs), max |-> SeqMax(xs)]
MetricStats(xs) ==
    [mean |-> mean(xs),
     std |-> IF Len(xs) > 1 THEN stdev(xs) ELSE <<0, 1>>,
     min |-> SeqMin(xs),
     max |-> SeqMax(xs)]

NoMetricStats == [mean |-> <<0, 1>>, std |-> <<0, 1>>, min |-> 0, max |-> 0]
NoStats ==
    [present |-> FALSE, temp |-> NoMetricStats, vib |-> NoMetricStats,
     pressure |-> NoMetricStats]

\* calculate_statistical_features: {} for an empty list, else the twelve
\* temp_/vib_/pressure_ mean, std, min, max features
calculate_statistical_features(records) ==
    IF records = <<>> THEN NoStats
    ELSE [present |-> TRUE,
          temp |-> MetricStats(Column(records, "temperature")),
          vib |-> MetricStats(Column(records, "vibration")),
          pressure |-> MetricStats(Column(records, "pressure"))]

\* the dict of trends: a key that is not in the dict holds "absent"
NoTrends ==
    [trend |-> "absent", temp_trend |-> "absent", vib_trend |-> "absent",
     pressure_trend |-> "absent"]

Direction_Inclusive(xs, delta) ==
    IF xs[Len(xs)] >= xs[1] + delta THEN "increasing"
    ELSE IF xs[Len(xs)] <= xs[1] - delta THEN "decreasing"
    ELSE "stable"
Direction(xs, delta) ==
    IF xs[Len(xs)] > xs[1] + delta THEN "increasing"
    ELSE IF xs[Len(xs)] < xs[1] - delta THEN "decreasing"
    ELSE "stable"

detect_trends_PerMetric(records) ==
    IF Len(records) < 3
    THEN [trend |-> "absent", temp_trend |-> "insufficient_data",
          vib_trend |-> "insufficient_data", pressure_trend |-> "insufficient_data"]
    ELSE [trend |-> "absent",
          temp_trend |-> Direction(Column(records, "temperature"), TEMP_TREND_DELTA),
          vib_trend |-> Direction(Column(records, "vibration"), VIB_TREND_DELTA),
          pressure_trend |->
              Direction(Column(records, "pressure"), PRESSURE_TREND_DELTA)]
detect_trends(records) ==
    IF Len(records) < 3
    THEN [NoTrends EXCEPT !.trend = "insufficient_data"]
    ELSE [trend |-> "absent",
          temp_trend |-> Direction(Column(records, "temperature"), TEMP_TREND_DELTA),
          vib_trend |-> Direction(Column(records, "vibration"), VIB_TREND_DELTA),
          pressure_trend |->
              Direction(Column(records, "pressure"), PRESSURE_TREND_DELTA)]

Enriched(p, ts, tvr, ptr) ==
    [machine_id |-> p["machine_id"], timestamp |-> ts,
     temperature |-> p["temperature"], vibration |-> p["vibration"],
     pressure |-> p["pressure"], temp_vib_ratio |-> tvr,
     pressure_temp_ratio |-> ptr, processed_at |-> NOW, data_version |-> "1.0",
     stats |-> NoStats, trends |-> NoTrends]

KeyErrorMsg(f) ==
    CASE f = "temperature" -> "'temperature'"
      [] f = "vibration" -> "'vibration'"
      [] OTHER -> "'pressure'"

\* lines 117-119: the timestamp of the enriched record; int(time.time())
\* only when the key is not in the record
DefaultTimestamp_Overwrite(record) == Num(NOW)
DefaultTimestamp(record) ==
    IF Has(record, "timestamp") THEN record["timestamp"] ELSE Num(NOW)

\* enrich_sensor_data: copies the record, defaults the timestamp, computes
\* the two quotients (subscript, float and division in source order)
enrich_sensor_data(record) ==
    LET ts == DefaultTimestamp(record)
        t == float(record["temperature"])
        v == float(record["vibration"])
        p == float(record["pressure"])
        fail(exc, msg) ==
            [exc |-> exc, msg |-> msg, val |-> Enriched(record, ts, <<0, 1>>, <<0, 1>>)]
    IN  IF ~Has(record, "temperature") THEN fail("KeyError", KeyErrorMsg("temperature"))
        ELSE IF ~Ok(t) THEN fail(t.exc, "could not convert to float")
        ELSE IF ~Has(record, "vibration") THEN fail("KeyError", KeyErrorMsg("vibration"))
        ELSE IF ~Ok(v) THEN fail(v.exc, "could not convert to float")
        ELSE IF v.val + EPSILON = 0 THEN fail("ZeroDivisionError", "float division by zero")
        ELSE IF ~Has(record, "pressure") THEN fail("KeyError", KeyErrorMsg("pressure"))
        ELSE IF ~Ok(p) THEN fail(p.exc, "could not convert to float")
        ELSE IF t.val + EPSILON = 0 THEN fail("ZeroDivisionError", "float division by zero")
        ELSE [exc |-> "none", msg |-> "",
              val |-> Enriched(record, ts, <<t.val, v.val + EPSILON>>,
                               <<p.val, t.val + EPSILON>>)]

RequiredTransformed ==
    <<"machine_id", "temperature", "vibration", "pressure", "timestamp">>

\* validate_transformed_data
validate_transformed_data(data) ==
    LET m == FirstMissing(data, RequiredTransformed, 1) IN
    IF m # 0
    THEN [exc |-> "DataTransformationError", msg |-> MissingMsg(RequiredTransformed[m])]
    ELSE IF ~Ok(float(data["temperature"])) \/ ~Ok(float(data["vibration"]))
            \/ ~Ok(float(data["pressure"])) \/ ~Ok(int(data["timestamp"]))
    THEN [exc |-> "DataTransformationError", msg |-> "Invalid data type"]
    ELSE [exc |-> "none", msg |-> ""]

TransformerRecords == {Rec("kinesis", TRUE, p) : p \in TransformerPayloads} \cup {Garbage}

TransformerEvents ==
    {NoRecordsKey} \cup {Event(rs) : rs \in SeqsUpTo(TransformerRecords, MaxRecords)}

InitTransformer ==
    /\ handler = "transformer"
    /\ event \in TransformerEvents
    /\ InitCommon

\* lines 174-177: the event has no records
TransformNoRecords ==
    /\ handler = "transformer"
    /\ pc = "start"
    /\ ~event.has \/ event.Records = <<>>
    /\ response' = Failure(400, "Data transformation failed", "No records found in event")
    /\ pc' = "done"
    /\ UNCHANGED <<handler, event, result, frames, replies,
                   etl, idx, machine_id, sensor_data, features, attempt,
                   invocations, sleeps, prediction, snsLog, cwLog, processed_records,
                   errors, kinesisLog, firehoseLog>>

\* lines 183-195 for one record: parse, enrich, validate.  exc names the
\* exception raised ("none": the record passed), val is the enriched record
\* as far as it was built.
ProcessRecord(record) ==
    LET e == enrich_sensor_data(record.payload)
        val == validate_transformed_data(e.val)
    IN  IF record.src = "other"
        THEN [exc |-> "KeyError", msg |-> "'body'", enriched |-> FALSE, val |-> e.val]
        ELSE IF ~record.ok
        THEN [exc |-> "JSONDecodeError", msg |-> "Expecting value", enriched |-> FALSE,
              val |-> e.val]
        ELSE IF ~Ok(e)
        THEN [exc |-> e.exc, msg |-> e.msg, enriched |-> FALSE, val |-> e.val]
        ELSE IF ~Ok(val)
        THEN [exc |-> val.exc, msg |-> val.msg, enriched |-> TRUE, val |-> e.val]
        ELSE [exc |-> "none", msg |-> "", enriched |-> TRUE, val |-> e.val]

\* lines 195-201: the record is appended after validation passed; any
\* exception before that skips the record
Accept_AppendBeforeValidate(records, r) ==
    IF r.enriched THEN Append(records, r.val) ELSE records
Accept(records, r) == IF Ok(r) THEN Append(records, r.val) ELSE records

\* line 115: enriched = record.copy() -- enrich_sensor_data writes to the
\* copy, so the caller's payload is after the call what it was before
CallerPayload_Aliased(payload, enriched) == [f \in Fields |-> enriched[f]]
CallerPayload(payload, enriched) == payload

\* the record of the event after enrich_sensor_data ran on its payload
AfterEnrich(record) ==
    IF record.src # "other" /\ record.ok
    THEN [record EXCEPT !.payload =
              CallerPayload(@, enrich_sensor_data(record.payload).val)]
    ELSE record

\* lines 181-201: one pass of the loop over event['Records']
TransformRecord ==
    /\ handler = "transformer"
    /\ pc \in {"start", "loop"}
    /\ event.has
    /\ idx <= Len(event.Records)
    /\ LET r == ProcessRecord(event.Records[idx]) IN
         /\ processed_records' = Accept(processed_records, r)
         /\ errors' = IF Ok(r) THEN errors
                      ELSE Append(errors, [index |-> idx, exc |-> r.exc, msg |-> r.msg])
    /\ event' = [event EXCEPT !.Records[idx] = AfterEnrich(@)]
    /\ idx' = idx + 1
    /\ pc' = "loop"
    /\ UNCHANGED <<handler, result, frames, replies,
                   etl, machine_id, sensor_data, features, attempt,
                   invocations, sleeps, prediction, snsLog, cwLog, kinesisLog,
                   firehoseLog, response>>

\* lines 206-214: the statistics and trends go into the latest record
AttachStatistics_Every(records) ==
    IF Len(records) > 1
    THEN [j \in DOMAIN records |->
              [records[j] EXCEPT !.stats = calculate_statistical_features(records),
                                 !.trends = detect_trends(records)]]
    ELSE records
AttachStatistics(records) ==
    IF Len(records) > 1
    THEN [records EXCEPT ![Len(records)] =
              [@ EXCEPT !.stats = calculate_statistical_features(records),
                        !.trends = detect_trends(records)]]
    ELSE records

\* lines 203-214: after the loop
TransformStatistics ==
    /\ handler = "transformer"
    /\ pc = "loop"
    /\ idx > Len(event.Records)
    /\ IF processed_records = <<>>
       THEN /\ response' = Failure(400, "Data transformation failed",
                                   "No records were successfully processed")
            /\ pc' = "done"
            /\ UNCHANGED <<processed_records, idx>>
       ELSE /\ processed_records' = AttachStatistics(processed_records)
            /\ pc' = "kinesis"
            /\ idx' = 1
            /\ UNCHANGED response
    /\ UNCHANGED <<handler, event, result, frames, replies,
                   etl, machine_id, sensor_data, features, attempt,
                   invocations, sleeps, prediction, snsLog, cwLog, errors,
                   kinesisLog, firehoseLog>>

\* lines 217 and 228: `for record in processed_records` visits the list in
\* order
SinkRecord_Reversed(records, i) == records[Len(records) + 1 - i]
SinkRecord(records, i) == records[i]

\* lines 217-225: one kinesis.put_record; a failure is logged and swallowed
TransformKinesis ==
    /\ handler = "transformer"
    /\ pc = "kinesis"
    /\ \E ok \in BOOLEAN :
         kinesisLog' = Append(kinesisLog,
                              [record |-> SinkRecord(processed_records, idx), delivered |-> ok])
    /\ IF idx = Len(processed_records)
       THEN pc' = "firehose" /\ idx' = 1
       ELSE pc' = pc /\ idx' = idx + 1
    /\ UNCHANGED <<handler, event, result, frames, replies,
                   etl, machine_id, sensor_data, features, attempt,
                   invocations, sleeps, prediction, snsLog, cwLog, processed_records,
                   errors, firehoseLog, response>>

\* lines 228-235: one firehose.put_record; a failure is logged and swallowed
TransformFirehose ==
    /\ handler = "transformer"
    /\ pc = "firehose"
    /\ \E ok \in BOOLEAN :
         firehoseLog' = Append(firehoseLog,
                               [record |-> SinkRecord(processed_records, idx), delivered |-> ok])
    /\ IF idx = Len(processed_records)
       THEN pc' = "respond" /\ idx' = idx
       ELSE pc' = pc /\ idx' = idx + 1
    /\ UNCHANGED <<handler, event, result, frames, replies,
                   etl, machine_id, sensor_data, features, attempt,
                   invocations, sleeps, prediction, snsLog, cwLog, processed_records,
                   errors, kinesisLog, response>>

\* lines 237-248: the 200 response
TransformRespond ==
    /\ handler = "transformer"
    /\ pc = "respond"
    /\ response' = Resp(200, "", "", unknown, None, Len(processed_records))
    /\ pc' = "done"
    /\ UNCHANGED <<handler, event, result, frames, replies,
                   etl, idx, machine_id, sensor_data, features, attempt,
                   invocations, sleeps, prediction, snsLog, cwLog, processed_records,
                   errors, kinesisLog, firehoseLog>>

NextTransformer ==
    \/ TransformNoRecords
    \/ TransformRecord
    \/ TransformStatistics
    \/ TransformKinesis
    \/ TransformFirehose
    \/ TransformRespond

SpecTransformer == InitTransformer /\ [][NextTransformer]_vars

\* ------------------------------------------------------------------------
\* src/lambda/data_transformer.py: calculate_statistical_features and
\* detect_trends called directly on a window (a list of validated readings)
\* ------------------------------------------------------------------------
WindowReadings == {Normal, Warm, Stringify(Surge), Drift}

InitStatistics ==
    /\ handler = "statistics"
    /\ event \in {Event(rs) : rs \in SeqsUpTo(WindowReadings, MaxRecords)}
    /\ InitCommon

CallCalculateStatisticalFeatures ==
    /\ handler = "statistics"
    /\ pc = "start"
    /\ result' = [function |-> "calculate_statistical_features",
                  val |-> calculate_statistical_features(event.Records)]
    /\ pc' = "done"
    /\ UNCHANGED <<handler, event, frames, replies,
                   etl, idx, machine_id, sensor_data, features, attempt,
                   invocations, sleeps, prediction, snsLog, cwLog, processed_records,
                   errors, kinesisLog, firehoseLog, response>>

CallDetectTrends ==
    /\ handler = "statistics"
    /\ pc = "start"
    /\ result' = [function |-> "detect_trends", val |-> detect_trends(event.Records)]
    /\ pc' = "done"
    /\ UNCHANGED <<handler, event, frames, replies,
                   etl, idx, machine_id, sensor_data, features, attempt,
                   invocations, sleeps, prediction, snsLog, cwLog, processed_records,
                   errors, kinesisLog, firehoseLog, response>>

NextStatistics == CallCalculateStatisticalFeatures \/ CallDetectTrends

SpecStatistics == InitStatistics /\ [][NextStatistics]_vars

\* ------------------------------------------------------------------------
\* src/lambda/terraform_iot_event.py: lambda_handler
\* ------------------------------------------------------------------------
\* data[f] > threshold: KeyError when the key is absent, TypeError when the
\* value is a string or None (Python 3 does not order str and int)
GreaterThan(data, f, threshold) ==
    IF ~Has(data, f) THEN [exc |-> "KeyError", val |-> FALSE]
    ELSE IF data[f].k # "num" THEN [exc |-> "TypeError", val |-> FALSE]
    ELSE [exc |-> "none", val |-> data[f].v > threshold]

\* lines 14-16: anomaly_score; `or` evaluates left to right and stops at the
\* first true operand
anomaly_score(data) ==
    LET t == GreaterThan(data, "temperature", IOT_TEMP_THRESHOLD)
        v == GreaterThan(data, "vibration", IOT_VIB_THRESHOLD)
        p == GreaterThan(data, "pressure", IOT_PRESSURE_THRESHOLD)
    IN  IF ~Ok(t) THEN [exc |-> t.exc, val |-> 0]
        ELSE IF t.val THEN [exc |-> "none", val |-> 1]
        ELSE IF ~Ok(v) THEN [exc |-> v.exc, val |-> 0]
        ELSE IF v.val THEN [exc |-> "none", val |-> 1]
        ELSE IF ~Ok(p) THEN [exc |-> p.exc, val |-> 0]
        ELSE IF p.val THEN [exc |-> "none", val |-> 1]
        ELSE [exc |-> "none", val |-> 0]

IotRecords ==
    {Rec("kinesis", TRUE, p) : p \in IotPayloads}
        \cup {Garbage, Rec("body", TRUE, Normal)}

IotEvents == {NoRecordsKey} \cup {Event(rs) : rs \in SeqsUpTo(IotRecords, MaxRecords)}

InitIotEvent ==
    /\ handler = "iot_event"
    /\ event \in IotEvents
    /\ InitCommon

\* line 9: event['Records'] of an event without the key raises KeyError
IotNoRecords ==
    /\ handler = "iot_event"
    /\ pc = "start"
    /\ ~event.has
    /\ response' = Raised("KeyError")
    /\ pc' = "done"
    /\ UNCHANGED <<handler, event, result, frames, replies,
                   etl, idx, machine_id, sensor_data, features, attempt,
                   invocations, sleeps, prediction, snsLog, cwLog, processed_records,
                   errors, kinesisLog, firehoseLog>>

\* lines 9-24: one pass of the loop; nothing catches an exception, so the
\* first one ends the handler
IotRecord ==
    /\ handler = "iot_event"
    /\ pc \in {"start", "loop"}
    /\ event.has
    /\ idx <= Len(event.Records)
    /\ LET record == event.Records[idx]
           score == anomaly_score(record.payload)
       IN  IF record.src # "kinesis"
           THEN /\ response' = Raised("KeyError")
                /\ pc' = "done"
                /\ UNCHANGED <<idx, firehoseLog>>
           ELSE IF ~record.ok
           THEN /\ response' = Raised("JSONDecodeError")
                /\ pc' = "done"
                /\ UNCHANGED <<idx, firehoseLog>>
           ELSE IF ~Ok(score)
           THEN /\ response' = Raised(score.exc)
                /\ pc' = "done"
                /\ UNCHANGED <<idx, firehoseLog>>
           ELSE \E ok \in BOOLEAN :
                  /\ firehoseLog' =
                         Append(firehoseLog,
                                [record |-> record.payload, index |-> idx,
                                 anomaly_score |-> score.val, delivered |-> ok])
                  /\ IF ok
                     THEN pc' = "loop" /\ idx' = idx + 1 /\ UNCHANGED response
                     ELSE pc' = "done" /\ response' = Raised("ClientError")
                              /\ UNCHANGED idx
    /\ UNCHANGED <<handler, event, result, frames, replies,
                   etl, machine_id, sensor_data, features, attempt,
                   invocations, sleeps, prediction, snsLog, cwLog, processed_records,
                   errors, kinesisLog>>

\* line 26
IotReturn ==
    /\ handler = "iot_event"
    /\ pc \in {"start", "loop"}
    /\ event.has
    /\ idx > Len(event.Records)
    /\ response' = Resp(200, "", "Processed", unknown, None, 0)
    /\ pc' = "done"
    /\ UNCHANGED <<handler, event, result, frames, replies,
                   etl, idx, machine_id, sensor_data, features, attempt,
                   invocations, sleeps, prediction, snsLog, cwLog, processed_records,
                   errors, kinesisLog, firehoseLog>>

NextIotEvent == IotNoRecords \/ IotRecord \/ IotReturn

SpecIotEvent == InitIotEvent /\ [][NextIotEvent]_vars

\* ------------------------------------------------------------------------
\* src/glue/etl_job.py: process_sensor_data
\* ------------------------------------------------------------------------
MaxRows == 3
SECONDS_PER_HOUR == 3600

EtlRow(m, ts, t, v, p) ==
    [machine_id |-> m, timestamp |-> ts, temperature |-> t, vibration |-> v,
     pressure |-> p]

\* rows of two machines in two hours: three event times for machine 1 (two
\* of them in one hour, one of them twice), values at the thresholds, above
\* all of them, and above the temperature threshold only
EtlRows ==
    {EtlRow(1, 10, 80000, 2000, 150000), EtlRow(1, 20, 81000, 2500, 151000),
     EtlRow(1, 20, 82000, 1000, 149000), EtlRow(1, 3610, 80000, 2000, 150000),
     EtlRow(2, 10, 81000, 2500, 151000), EtlRow(2, 3610, 82000, 1000, 149000)}

InitEtl ==
    /\ handler = "etl"
    /\ event \in {Event(rs) : rs \in SeqsUpTo(EtlRows, MaxRows)}
    /\ InitCommon

\* a Spark quotient: null (<<0, 0>>) when the divisor is 0
NullQuotient == <<0, 0>>
Quotient(a, b) == IF b = 0 THEN NullQuotient ELSE <<a, b>>

\* lines 78-90: the rule flags and their sum
is_anomaly_temp(row) == IF row.temperature > ETL_TEMP_THRESHOLD THEN 1 ELSE 0
is_anomaly_vib(row) == IF row.vibration > ETL_VIB_THRESHOLD THEN 1 ELSE 0
is_anomaly_pressure(row) == IF row.pressure > ETL_PRESSURE_THRESHOLD THEN 1 ELSE 0
total_anomaly_score(row) ==
    is_anomaly_temp(row) + is_anomaly_vib(row) + is_anomaly_pressure(row)

\* lines 93-101: year, month, day and hour of the event timestamp together
\* name the hour since the epoch
HourOf(ts) == ts \div SECONDS_PER_HOUR

\* lines 57-101: the columns added to one row
DeriveColumns(row) ==
    [machine_id |-> row.machine_id, timestamp |-> row.timestamp,
     temperature |-> row.temperature, vibration |-> row.vibration,
     pressure |-> row.pressure,
     temp_vib_ratio |-> Quotient(row.temperature, row.vibration + EPSILON),
     pressure_temp_ratio |-> Quotient(row.pressure, row.temperature + EPSILON),
     is_anomaly_temp |-> is_anomaly_temp(row),
     is_anomaly_vib |-> is_anomaly_vib(row),
     is_anomaly_pressure |-> is_anomaly_pressure(row),
     total_anomaly_score |-> total_anomaly_score(row),
     hour |-> HourOf(row.timestamp)]

\* the rows of a bucket, as the sequence of their values of column f
RECURSIVE SelectColumn(_, _, _)
SelectColumn(rows, key, f) ==
    IF rows = <<>> THEN <<>>
    ELSE (IF <<rows[1].machine_id, rows[1].hour>> = key THEN <<rows[1][f]>> ELSE <<>>)
             \o SelectColumn(Tail(rows), key, f)

\* Spark avg, stddev (the sample standard deviation, null for one row; kept
\* as its square), max, min
SparkMetricStats_FirstValue(xs) ==
    [avg |-> <<xs[1], 1>>,
     std |-> IF Len(xs) > 1 THEN stdev(xs) ELSE NullQuotient,
     max |-> SeqMax(xs),
     min |-> SeqMin(xs)]
SparkMetricStats(xs) ==
    [avg |-> mean(xs),
     std |-> IF Len(xs) > 1 THEN stdev(xs) ELSE NullQuotient,
     max |-> SeqMax(xs),
     min |-> SeqMin(xs)]

\* lines 104-119: groupBy(machine_id, year, month, day, hour).agg(...)
MachineStats(rows) ==
    LET keys == {<<rows[i].machine_id, rows[i].hour>> : i \in DOMAIN rows} IN
    [key \in keys |->
        [temperature |-> SparkMetricStats(SelectColumn(rows, key, "temperature")),
         vibration |-> SparkMetricStats(SelectColumn(rows, key, "vibration")),
         pressure |-> SparkMetricStats(SelectColumn(rows, key, "pressure")),
         record_count |-> Len(SelectColumn(rows, key, "temperature")),
         anomaly_count |-> SeqSum(SelectColumn(rows, key, "total_anomaly_score"))]]

\* the orders Window.partitionBy(machine_id).orderBy(event_timestamp) may
\* give the rows: sorted by timestamp inside a machine, rows with equal
\* timestamps in any order.  ord[i] is the position of row i.
WindowOrders(rows) ==
    {ord \in Permutations(DOMAIN rows) :
        \A i, j \in DOMAIN rows :
             rows[i].machine_id = rows[j].machine_id
                 /\ rows[i].timestamp < rows[j].timestamp => ord[i] < ord[j]}

\* lag(f, 1).over(window_spec) for row i: the value of f in the row of the
\* same machine right before it, null (None) when there is none
Lag_AnyMachine(rows, ord, i, f) ==
    LET before == {j \in DOMAIN rows : ord[j] < ord[i]}
    IN  IF before = {} THEN None
        ELSE Num(rows[CHOOSE j \in before : \A k \in before : ord[k] <= ord[j]][f])
Lag(rows, ord, i, f) ==
    LET before == {j \in DOMAIN rows :
                      rows[j].machine_id = rows[i].machine_id /\ ord[j] < ord[i]}
    IN  IF before = {} THEN None
        ELSE Num(rows[CHOOSE j \in before : \A k \in before : ord[k] <= ord[j]][f])

\* col - lag: null when the lag is null
Diff(x, lagged) == IF lagged = None THEN None ELSE Num(x - lagged.v)

\* lines 122-136: the lag and diff columns
TimeSeriesColumns(rows, ord, i) ==
    [row |-> rows[i],
     temp_lag_1 |-> Lag(rows, ord, i, "temperature"),
     vib_lag_1 |-> Lag(rows, ord, i, "vibration"),
     pressure_lag_1 |-> Lag(rows, ord, i, "pressure"),
     temp_diff |-> Diff(rows[i].temperature, Lag(rows, ord, i, "temperature")),
     vib_diff |-> Diff(rows[i].vibration, Lag(rows, ord, i, "vibration")),
     pressure_diff |-> Diff(rows[i].pressure, Lag(rows, ord, i, "pressure"))]

\* lines 31-177: process_sensor_data, the first step of main()
EtlProcess ==
    /\ handler = "etl"
    /\ pc = "start"
    /\ LET rows == [i \in DOMAIN event.Records |-> DeriveColumns(event.Records[i])] IN
       \E ord \in WindowOrders(rows) :
         etl' = [processed_data |->
                     [i \in DOMAIN rows |-> TimeSeriesColumns(rows, ord, i)],
                 machine_stats |-> MachineStats(rows),
                 anomaly_records |->
                     Cardinality({i \in DOMAIN rows : rows[i].total_anomaly_score > 0}),
                 anomaly_summary |-> <<>>]
    /\ pc' = "views"
    /\ UNCHANGED <<handler, event, result, frames, replies,
                   idx, machine_id, sensor_data, features, attempt,
                   invocations, sleeps, prediction, snsLog, cwLog, processed_records,
                   errors, kinesisLog, firehoseLog, response>>

\* create_analytics_views, lines 199-215: the anomaly summary groups the
\* processed rows by machine_id, year, month, day
SECONDS_PER_DAY == 86400
DayOf(ts) == ts \div SECONDS_PER_DAY

AnomalySummary(rows) ==
    LET keys == {<<rows[i].machine_id, DayOf(rows[i].timestamp)>> : i \in DOMAIN rows}
        group(key) ==
            {i \in DOMAIN rows : <<rows[i].machine_id, DayOf(rows[i].timestamp)>> = key}
    IN  [key \in keys |->
            [total_records |-> Cardinality(group(key)),
             anomaly_records |->
                 Cardinality({i \in group(key) : rows[i].total_anomaly_score > 0})]]

\* lines 183-258: create_analytics_views, the second step of main()
EtlAnalyticsViews ==
    /\ handler = "etl"
    /\ pc = "views"
    /\ etl' = [etl EXCEPT !.anomaly_summary =
                   AnomalySummary([i \in DOMAIN etl.processed_data |->
                                      etl.processed_data[i].row])]
    /\ pc' = "done"
    /\ UNCHANGED <<handler, event, result, frames, replies,
                   idx, machine_id, sensor_data, features, attempt,
                   invocations, sleeps, prediction, snsLog, cwLog, processed_records,
                   errors, kinesisLog, firehoseLog, response>>

NextEtl == EtlProcess \/ EtlAnalyticsViews

SpecEtl == InitEtl /\ [][NextEtl]_vars

\* ------------------------------------------------------------------------
\* src/sagemaker/inference.py: postprocess_prediction called directly
\* ------------------------------------------------------------------------
PredictionValues == {-1, 0, 1}

\* the call's argument
Call(p) == [Records |-> <<>>, has |-> FALSE, prediction |-> p]

InitPostprocess ==
    /\ handler = "postprocess"
    /\ event \in {Call(Num(x)) : x \in PredictionValues}
    /\ InitCommon

\* lines 224-234 (without a confidence)
postprocess_prediction(p) ==
    [prediction |-> p.v,
     prediction_label |-> IF p = Num(1) THEN "anomaly" ELSE "normal",
     severity |-> IF p = Num(1) THEN "high" ELSE "normal"]

CallPostprocessPrediction ==
    /\ handler = "postprocess"
    /\ pc = "start"
    /\ result' = [function |-> "postprocess_prediction",
                  val |-> postprocess_prediction(event.prediction)]
    /\ pc' = "done"
    /\ UNCHANGED <<handler, event, frames, replies,
                   etl, idx, machine_id, sensor_data, features, attempt,
                   invocations, sleeps, prediction, snsLog, cwLog, processed_records,
                   errors, kinesisLog, firehoseLog, response>>

NextPostprocess == CallPostprocessPrediction

\* the inference handler and the endpoint's postprocessing: everything that
\* gives a verdict a severity
InitVerdict == InitInference \/ InitPostprocess
NextVerdict == NextInference \/ NextPostprocess
SpecVerdict == InitVerdict /\ [][NextVerdict]_vars

\* ------------------------------------------------------------------------
\* src/sagemaker/inference.py: the entry points SageMaker calls by name
\* ------------------------------------------------------------------------
\* frames the interpreter allows before it raises RecursionError
MaxFrames == 4

EntryPoints == {"model_fn", "predict_fn", "input_fn", "output_fn"}

\* the definitions of an entry point's name in source order: "body" is the
\* function of lines 23-149 that does the work, "forward" the one of lines
\* 276-291 whose whole body is `return <name>(<arguments>)`
Definitions(f) == <<"body", "forward">>

\* a module-level name is bound to its last definition, also inside the
\* body of that definition
Resolve(f) == Definitions(f)[Len(Definitions(f))]

CallEntryPoint(f) == [Records |-> <<>>, has |-> FALSE, function |-> f]

InitSageMaker ==
    /\ handler = "sagemaker"
    /\ event \in {CallEntryPoint(f) : f \in EntryPoints}
    /\ InitCommon

\* one call of the name: a new frame, which either does the work and
\* returns or calls the name again
SageMakerCall ==
    /\ handler = "sagemaker"
    /\ pc \in {"start", "call"}
    /\ IF frames = MaxFrames
       THEN /\ result' = [function |-> event.function, val |-> "RecursionError"]
            /\ response' = Raised("RecursionError")
            /\ pc' = "done"
            /\ UNCHANGED frames
       ELSE IF Resolve(event.function) = "forward"
       THEN /\ frames' = frames + 1
            /\ pc' = "call"
            /\ UNCHANGED <<result, response>>
       ELSE /\ result' = [function |-> event.function, val |-> "returned"]
            /\ frames' = 0
            /\ pc' = "done"
            /\ UNCHANGED response
    /\ UNCHANGED <<handler, event, replies, etl, idx, machine_id, sensor_data, features,
                   attempt, invocations, sleeps, prediction, snsLog, cwLog,
                   processed_records, errors, kinesisLog, firehoseLog>>

NextSageMaker == SageMakerCall

\* ------------------------------------------------------------------------
\* The pipeline: one run of one of its entry points
\* ------------------------------------------------------------------------
Init ==
    \/ InitInference
    \/ InitTransformer
    \/ InitStatistics
    \/ InitIotEvent
    \/ InitEtl
    \/ InitPostprocess
    \/ InitSageMaker

Next ==
    \/ NextInference
    \/ NextTransformer
    \/ NextStatistics
    \/ NextIotEvent
    \/ NextEtl
    \/ NextPostprocess
    \/ NextSageMaker

Spec == Init /\ [][Next]_vars

\* ------------------------------------------------------------------------
\* Properties
\* ------------------------------------------------------------------------
Done == pc = "done"

\* the inference handler decoded the payload of the first record
InferenceDecoded ==
    /\ handler = "inference"
    /\ event.has
    /\ event.Records # <<>>
    /\ event.Records[1].src # "other"
    /\ event.Records[1].ok
InferencePayload == event.Records[1].payload

AllAttemptsFailed ==
    /\ Len(invocations) = MAX_RETRIES
    /\ \A i \in DOMAIN invocations : invocations[i] = "failed"

Failed(invs) == Cardinality({i \in DOMAIN invs : invs[i] = "failed"})
Min(a, b) == IF a < b THEN a ELSE b

\* the rule flags of a payload whose metrics are numbers
MetricsOf(p) ==
    [temperature |-> p["temperature"].v, vibration |-> p["vibration"].v,
     pressure |-> p["pressure"].v]
NumericMetrics(p) == \A f \in Metrics : p[f].k = "num"
CoercibleMetrics(p) == \A f \in Metrics : p[f].k \in {"num", "str"}

SinkEntries == kinesisLog \o firehoseLog
AllDelivered(log) == \A j \in DOMAIN log : log[j].delivered
RejectedIndexes == {errors[j].index : j \in DOMAIN errors}

\* C1: fail-open -- when all MAX_RETRIES invocation attempts for a reading
\* fail, handling still completes successfully (never a 500 response).
C1_FailOpen ==
    (handler = "inference" /\ Done /\ AllAttemptsFailed) => response.statusCode = 200

\* C2: for a reading that reaches the model, the predictor is invoked at
\* least once and at most MAX_RETRIES times, no invocation follows a
\* successful one, the k-th wait is RETRY_DELAY * k, and there is no wait
\* after the final failed attempt.
C2_RetryPolicy ==
    handler = "inference" =>
        /\ Len(invocations) <= MAX_RETRIES
        /\ \A i \in DOMAIN invocations : i < Len(invocations) => invocations[i] = "failed"
        /\ Len(sleeps) = Min(Failed(invocations), MAX_RETRIES - 1)
        /\ \A k \in DOMAIN sleeps : sleeps[k] = RETRY_DELAY * k
        /\ (pc = "emit" \/ (Done /\ response.statusCode = 200)
                \/ response.error = "Anomaly detection failed")
              => Len(invocations) >= 1

C2_Witness ==
    /\ handler = "inference"
    /\ Done
    /\ invocations = <<"failed", "failed", "failed">>
    /\ sleeps = <<1, 2>>

\* C3: when the model call succeeds, the reading is reported as an anomaly
\* (prediction 1 and an alert) if the model predicts anomaly or at least one
\* rule flag is set.
C3_ModelOrRule ==
    (handler = "inference" /\ Done /\ response.statusCode = 200
        /\ (prediction = Num(1) \/ total_anomaly_score(features) > 0))
    => (response.prediction = Num(1) /\ snsLog # <<>>)

\* C4: per-record failure isolation -- in every handler that loops over the
\* records, each well-formed record of the event reaches the sinks whatever
\* the other records of the event are (no sink write failed).
WellFormed(record) ==
    /\ record.src = "kinesis"
    /\ record.ok
    /\ \A f \in Fields : Has(record.payload, f)
    /\ NumericMetrics(record.payload)
    /\ record.payload["timestamp"].k = "num"

Written(log, payload) ==
    \E j \in DOMAIN log : \A f \in Fields : log[j].record[f] = payload[f]

C4_Isolation ==
    (handler \in {"transformer", "iot_event"} /\ Done /\ event.has
        /\ AllDelivered(firehoseLog))
    => \A i \in DOMAIN event.Records :
          WellFormed(event.Records[i]) => Written(firehoseLog, event.Records[i].payload)

\* C5 (as stated): a reading in which any one of the five fields is absent is
\* rejected, never sent to the model or the sinks.
LacksOneOf(p, fs) == \E f \in fs : ~Has(p, f)

C5_AnyFieldAbsent ==
    Done =>
        /\ (InferenceDecoded /\ LacksOneOf(InferencePayload, Fields))
              => (response.statusCode = 400 /\ invocations = <<>>)
        /\ (handler = "transformer" /\ event.has)
              => \A i \in DOMAIN event.Records :
                    (event.Records[i].ok /\ LacksOneOf(event.Records[i].payload, Fields))
                        => i \in RejectedIndexes

\* C5 (amended): a reading in which temperature, vibration or pressure is
\* absent is rejected by the inference handler and by the transformer, and
\* so is a reading without machine_id by the transformer: it is never sent
\* to the model or the sinks.
C5_MetricAbsent ==
    Done =>
        /\ (InferenceDecoded /\ LacksOneOf(InferencePayload, Metrics))
              => /\ response.statusCode = 400
                 /\ invocations = <<>>
                 /\ snsLog = <<>>
                 /\ cwLog = <<>>
        /\ (handler = "transformer" /\ event.has)
              => /\ \A i \in DOMAIN event.Records :
                       (event.Records[i].ok
                          /\ LacksOneOf(event.Records[i].payload,
                                        Metrics \cup {"machine_id"}))
                       => i \in RejectedIndexes
                 /\ \A j \in DOMAIN SinkEntries :
                       ~LacksOneOf(SinkEntries[j].record, Metrics \cup {"machine_id"})

C5_Witness ==
    /\ handler = "transformer"
    /\ Done
    /\ kinesisLog # <<>>
    /\ \E i \in DOMAIN event.Records :
          /\ event.Records[i].ok
          /\ ~Has(event.Records[i].payload, "pressure")
          /\ i \in RejectedIndexes

\* C6: a reading whose payload has no temperature, vibration or pressure key
\* is rejected with the reason 'Missing required field: <field>', in the
\* inference handler and in the transformer.
MissingReasons(p) == {MissingMsg(f) : f \in {g \in Metrics : ~Has(p, g)}}

C6_MissingReason ==
    Done =>
        /\ (InferenceDecoded /\ LacksOneOf(InferencePayload, Metrics))
              => response.message \in MissingReasons(InferencePayload)
        /\ (handler = "transformer" /\ event.has)
              => \A j \in DOMAIN errors :
                    LET r == event.Records[errors[j].index] IN
                    (r.ok /\ LacksOneOf(r.payload, Metrics))
                        => errors[j].msg \in MissingReasons(r.payload)

\* C7: a reading rejected by validation has no side effects -- the handler
\* answers 400, the model is never invoked, no alert and no metric is
\* emitted, the record reaches no sink and contributes nothing to the
\* statistics attached to other records.
RECURSIVE SumOver(_, _)
SumOver(S, f) ==
    IF S = {} THEN 0
    ELSE LET i == CHOOSE x \in S : TRUE
         IN  float(event.Records[i].payload[f]).val + SumOver(S \ {i}, f)

SameReading(rec, p) ==
    /\ \A f \in Fields \ {"timestamp"} : rec[f] = p[f]
    /\ Has(p, "timestamp") => rec["timestamp"] = p["timestamp"]

AcceptedIndexes == (DOMAIN event.Records) \ RejectedIndexes

C7_RejectedNoEffects ==
    /\ (Done /\ InferenceDecoded
          /\ ~Ok(validate_sensor_data(ExtractSensorData(InferencePayload))))
       => /\ response.statusCode = 400
          /\ invocations = <<>>
          /\ sleeps = <<>>
          /\ snsLog = <<>>
          /\ cwLog = <<>>
          /\ SinkEntries = <<>>
    /\ (handler = "transformer" /\ Done /\ event.has)
       => /\ Len(processed_records) = Cardinality(AcceptedIndexes)
          /\ \A j \in DOMAIN SinkEntries :
                \E i \in AcceptedIndexes :
                    SameReading(SinkEntries[j].record, event.Records[i].payload)
          /\ \A j \in DOMAIN processed_records :
                processed_records[j].stats.present =>
                    /\ processed_records[j].stats.temp.mean =
                           <<SumOver(AcceptedIndexes, "temperature"),
                             Cardinality(AcceptedIndexes)>>
                    /\ processed_records[j].stats.vib.mean =
                           <<SumOver(AcceptedIndexes, "vibration"),
                             Cardinality(AcceptedIndexes)>>
                    /\ processed_records[j].stats.pressure.mean =
                           <<SumOver(AcceptedIndexes, "pressure"),
                             Cardinality(AcceptedIndexes)>>
          /\ AcceptedIndexes = {} => (response.statusCode = 400 /\ SinkEntries = <<>>)

C7_Witness ==
    /\ handler = "transformer"
    /\ Done
    /\ errors # <<>>
    /\ \E j \in DOMAIN errors : errors[j].exc = "DataTransformationError"
    /\ processed_records # <<>>
    /\ processed_records[Len(processed_records)].stats.present

\* C8: range checks are advisory -- every reading whose three metrics are
\* coercible to float passes validation and feature preparation and reaches
\* model invocation, whatever the values (negative ones included).
C8_RangeAdvisory ==
    (Done /\ InferenceDecoded /\ CoercibleMetrics(InferencePayload))
    => /\ response.statusCode # 400
       /\ response.error # "Internal server error"
       /\ invocations # <<>>

\* C9: is_anomaly_temp = 1 iff temperature > 80, is_anomaly_vib = 1 iff
\* vibration > 2.0, is_anomaly_pressure = 1 iff pressure > 150, the score is
\* their sum in 0..3, and every component that attaches an anomaly score to
\* a reading marks it anomalous exactly when that score is > 0.
C9_RuleScore ==
    /\ (handler = "etl" /\ Done)
       => \A i \in DOMAIN etl.processed_data :
             LET r == etl.processed_data[i].row IN
             /\ r.is_anomaly_temp = (IF r.temperature > 80000 THEN 1 ELSE 0)
             /\ r.is_anomaly_vib = (IF r.vibration > 2000 THEN 1 ELSE 0)
             /\ r.is_anomaly_pressure = (IF r.pressure > 150000 THEN 1 ELSE 0)
             /\ r.total_anomaly_score =
                    r.is_anomaly_temp + r.is_anomaly_vib + r.is_anomaly_pressure
             /\ r.total_anomaly_score \in 0..3
    /\ handler = "iot_event"
       => \A j \in DOMAIN firehoseLog :
             (firehoseLog[j].delivered /\ NumericMetrics(firehoseLog[j].record))
             => (firehoseLog[j].anomaly_score > 0
                   <=> total_anomaly_score(MetricsOf(firehoseLog[j].record)) > 0)

\* C10: a reading whose metrics are numeric strings is accepted and yields
\* the same flags, features and verdict as the same reading with numbers, in
\* every handler that consumes inbound readings.
Stringified(p) ==
    /\ \A f \in Fields : Has(p, f)
    /\ \A f \in Metrics : p[f].k = "str"
Numify(p) == [f \in Fields |-> IF p[f].k = "str" THEN Num(p[f].v) ELSE p[f]]

C10_NumericStrings ==
    /\ (Done /\ InferenceDecoded /\ Stringified(InferencePayload))
       => /\ response.statusCode # 400
          /\ invocations # <<>>
          /\ features = prepare_features(ExtractSensorData(Numify(InferencePayload))).val
    /\ (handler = "transformer" /\ Done /\ event.has)
       => \A i \in DOMAIN event.Records :
             (event.Records[i].ok /\ Stringified(event.Records[i].payload))
             => /\ i \in AcceptedIndexes
                /\ \E j \in DOMAIN processed_records :
                     LET n == enrich_sensor_data(Numify(event.Records[i].payload)).val
                     IN  /\ processed_records[j].temp_vib_ratio = n.temp_vib_ratio
                         /\ processed_records[j].pressure_temp_ratio = n.pressure_temp_ratio
    /\ (handler = "iot_event" /\ Done /\ event.has /\ AllDelivered(firehoseLog)
          /\ \A i \in DOMAIN event.Records :
                \/ WellFormed(event.Records[i])
                \/ (event.Records[i].src = "kinesis" /\ event.Records[i].ok
                      /\ Stringified(event.Records[i].payload)))
       => \A i \in DOMAIN event.Records :
             Stringified(event.Records[i].payload)
             => \E j \in DOMAIN firehoseLog :
                  /\ firehoseLog[j].index = i
                  /\ firehoseLog[j].anomaly_score =
                         anomaly_score(Numify(event.Records[i].payload)).val

\* position in processed_records of the accepted record i of the event
Rank(i) == Cardinality({k \in AcceptedIndexes : k <= i})

\* the transformer finished its loop over the records
LoopDone == handler = "transformer" /\ event.has /\ pc \notin {"start", "loop"}

\* a decodable record whose payload has machine_id and three numeric metrics
Processable(record) ==
    /\ record.src # "other"
    /\ record.ok
    /\ Has(record.payload, "machine_id")
    /\ \A f \in Metrics : Has(record.payload, f)
    /\ Ok(enrich_sensor_data(record.payload))

\* C11: a reading without a timestamp is accepted by the transformer -- it
\* gets the ingestion time as its timestamp and passes validation; a
\* timestamp that is present is never overwritten, in the processed record
\* and in what is written to the sinks.
C11_TimestampDefault ==
    LoopDone =>
        /\ \A i \in DOMAIN event.Records :
              LET p == event.Records[i].payload IN
              /\ (Processable(event.Records[i]) /\ ~Has(p, "timestamp"))
                    => /\ i \in AcceptedIndexes
                       /\ processed_records[Rank(i)].timestamp = Num(NOW)
              /\ (i \in AcceptedIndexes /\ Has(p, "timestamp"))
                    => processed_records[Rank(i)].timestamp = p["timestamp"]
        /\ \A j \in DOMAIN SinkEntries :
              \E i \in AcceptedIndexes :
                 LET p == event.Records[i].payload IN
                 /\ SameReading(SinkEntries[j].record, p)
                 /\ ~Has(p, "timestamp") => SinkEntries[j].record.timestamp = Num(NOW)

C11_Witness ==
    /\ handler = "transformer"
    /\ Done
    /\ response.statusCode = 200
    /\ Len(firehoseLog) = 2
    /\ \E i, k \in AcceptedIndexes :
          /\ ~Has(event.Records[i].payload, "timestamp")
          /\ processed_records[Rank(i)].timestamp = Num(NOW)
          /\ event.Records[k].payload["timestamp"] = Num(2)
          /\ processed_records[Rank(k)].timestamp = Num(2)

\* the records of a list that carry the machine_id of its j-th record
OwnMachine(records, j) ==
    LET Same(r) == r.machine_id = records[j].machine_id
    IN  SelectSeq(records, Same)

\* C12: the statistics and trends attached to a record are computed only
\* from the readings with the same machine_id as that record, so readings
\* of another machine in the batch never change them.
C12_PerMachineStatistics ==
    LoopDone =>
        \A j \in DOMAIN processed_records :
            processed_records[j].stats.present =>
                /\ processed_records[j].stats =
                       calculate_statistical_features(OwnMachine(processed_records, j))
                /\ processed_records[j].trends =
                       detect_trends(OwnMachine(processed_records, j))

\* the first n records of the processed list
Window(n) == SubSeq(processed_records, 1, n)
ShortWindows == 0..Min(2, Len(processed_records))
Latest == processed_records[Len(processed_records)]

\* C13 (as stated): with fewer than 3 readings, temp_trend, vib_trend and
\* pressure_trend are all present with the value insufficient_data.
C13_EveryMetricInsufficient ==
    LoopDone =>
        \A n \in ShortWindows :
            /\ detect_trends(Window(n)).temp_trend = "insufficient_data"
            /\ detect_trends(Window(n)).vib_trend = "insufficient_data"
            /\ detect_trends(Window(n)).pressure_trend = "insufficient_data"

\* C13 (amended): with fewer than 3 readings, trend detection reports the
\* single key trend = insufficient_data and no temp_trend, vib_trend or
\* pressure_trend; the handler attaches it to the latest record of a batch
\* of exactly 2 accepted readings, and attaches no trend to a single one.
C13_SingleTrendKey ==
    LoopDone =>
        /\ \A n \in ShortWindows :
              detect_trends(Window(n)) = [NoTrends EXCEPT !.trend = "insufficient_data"]
        /\ Len(processed_records) = 2
              => Latest.trends = [NoTrends EXCEPT !.trend = "insufficient_data"]
        /\ Len(processed_records) = 1 => Latest.trends = NoTrends

C13_Witness ==
    /\ handler = "transformer"
    /\ Done
    /\ Len(processed_records) = 2
    /\ Latest.trends.trend = "insufficient_data"
    /\ Latest.trends.temp_trend = "absent"
    /\ Len(kinesisLog) = 2
    /\ kinesisLog[2].record.trends.trend = "insufficient_data"

\* the value of metric f in the j-th processed record
Value(j, f) == float(processed_records[j][f]).val

\* the trend the oldest and the newest value give for a delta
TrendOf(oldest, newest, delta) ==
    IF newest - oldest > delta THEN "increasing"
    ELSE IF oldest - newest > delta THEN "decreasing"
    ELSE "stable"

\* C14: with at least 3 readings the trend of each metric depends only on
\* the oldest (first) and newest (last) reading of the window and on the
\* metric's delta (5, 0.5, 10): increasing iff newest > oldest + delta,
\* decreasing iff newest < oldest - delta, stable otherwise; one direction
\* per metric, whatever the readings in between.
C14_TrendByEndpoints ==
    (LoopDone /\ Len(processed_records) >= 3) =>
        LET n == Len(processed_records) IN
        /\ Latest.trends.trend = "absent"
        /\ Latest.trends.temp_trend =
               TrendOf(Value(1, "temperature"), Value(n, "temperature"), 5000)
        /\ Latest.trends.vib_trend =
               TrendOf(Value(1, "vibration"), Value(n, "vibration"), 500)
        /\ Latest.trends.pressure_trend =
               TrendOf(Value(1, "pressure"), Value(n, "pressure"), 10000)

C14_Witness ==
    /\ handler = "transformer"
    /\ Done
    /\ Len(processed_records) = 3
    /\ Value(3, "temperature") - Value(1, "temperature") = 5000
    /\ Value(2, "temperature") - Value(1, "temperature") > 5000
    /\ Latest.trends.temp_trend = "stable"
    /\ Latest.trends.vib_trend = "stable"
    /\ Value(3, "pressure") - Value(1, "pressure") = 10000
    /\ Latest.trends.pressure_trend = "stable"

\* calculate_statistical_features was called directly and returned
StatsCall ==
    /\ handler = "statistics"
    /\ result.function = "calculate_statistical_features"
StatKeys == {"temp", "vib", "pressure"}
MetricOf(key) ==
    CASE key = "temp" -> "temperature"
      [] key = "vib" -> "vibration"
      [] OTHER -> "pressure"

\* C15: a window of exactly one reading reports stddev = 0 and mean = min =
\* max = the reading's value for temperature, vibration and pressure, and
\* the statistics of every non-empty window are defined (no failure).
C15_SingleReading ==
    StatsCall =>
        /\ event.Records # <<>> =>
              /\ result.val.present
              /\ \A key \in StatKeys :
                    result.val[key].mean[2] # 0 /\ result.val[key].std[2] # 0
        /\ Len(event.Records) = 1 =>
              \A key \in StatKeys :
                  LET x == float(event.Records[1][MetricOf(key)]).val IN
                  /\ result.val[key].std[1] = 0
                  /\ result.val[key].mean = <<x, 1>>
                  /\ result.val[key].min = x
                  /\ result.val[key].max = x

C15_Witness ==
    /\ StatsCall
    /\ Len(event.Records) = 1
    /\ result.val.temp.mean = <<78000, 1>>
    /\ result.val.temp.std = <<0, 1>>
    /\ result.val.pressure.max = 100000

\* the squared standard deviation std is the population one of the values
\* xs: the squared deviations from the mean divided by n.  std is a quotient
\* over n times the squared deviations, so its divisor has to be n * n.
IsPopulationStd(std, xs) ==
    /\ std[1] = SquaredDeviationsTimesN(xs)
    /\ std[1] # 0 => std[2] = Len(xs) * Len(xs)

EtlInput == [i \in DOMAIN etl.processed_data |-> etl.processed_data[i].row]

\* C16: the standard deviation reported for n >= 2 readings is the
\* population standard deviation (divisor n, not n - 1), in the
\* transformer's statistical features and in the hourly machine statistics.
C16_PopulationStdDev ==
    /\ (StatsCall /\ Len(event.Records) >= 2)
       => \A key \in StatKeys :
             IsPopulationStd(result.val[key].std,
                             Column(event.Records, MetricOf(key)))
    /\ (LoopDone /\ Len(processed_records) >= 2)
       => \A key \in StatKeys :
             IsPopulationStd(Latest.stats[key].std,
                             Column(processed_records, MetricOf(key)))
    /\ (handler = "etl" /\ Done)
       => \A b \in DOMAIN etl.machine_stats :
             etl.machine_stats[b].record_count >= 2
             => \A f \in Metrics :
                   IsPopulationStd(etl.machine_stats[b][f].std,
                                   SelectColumn(EtlInput, b, f))

\* the bucket of an input row: its machine and the hour of its timestamp
KeyOf(row) == <<row.machine_id, row.timestamp \div 3600>>
BucketRows(b) == {i \in DOMAIN event.Records : KeyOf(event.Records[i]) = b}

RECURSIVE RowSum(_, _)
RowSum(S, f) ==
    IF S = {} THEN 0
    ELSE LET i == CHOOSE x \in S : TRUE IN EtlInput[i][f] + RowSum(S \ {i}, f)

RECURSIVE CountSum(_, _)
CountSum(stats, B) ==
    IF B = {} THEN 0
    ELSE LET b == CHOOSE x \in B : TRUE
         IN  stats[b].record_count + CountSum(stats, B \ {b})

\* count, mean, min, max and anomaly_count of every bucket
Summary(stats) ==
    [b \in DOMAIN stats |->
        [count |-> stats[b].record_count,
         anomaly_count |-> stats[b].anomaly_count,
         mean |-> [f \in Metrics |-> stats[b][f].avg],
         min |-> [f \in Metrics |-> stats[b][f].min],
         max |-> [f \in Metrics |-> stats[b][f].max]]]

Permuted(rows, perm) == [i \in DOMAIN rows |-> DeriveColumns(rows[perm[i]])]

\* C17: every reading is in exactly one bucket, keyed by its machine_id and
\* the hour of its event timestamp; the bucket counts sum to the number of
\* readings; mean and anomaly_count are the bucket's sums; and every
\* permutation of the input gives the same count, mean, min, max and
\* anomaly_count for every bucket.
C17_Aggregation ==
    (handler = "etl" /\ Done) =>
        LET rows == event.Records
            stats == etl.machine_stats
        IN  /\ DOMAIN stats = {KeyOf(rows[i]) : i \in DOMAIN rows}
            /\ CountSum(stats, DOMAIN stats) = Len(rows)
            /\ \A b \in DOMAIN stats :
                  /\ stats[b].record_count = Cardinality(BucketRows(b))
                  /\ stats[b].anomaly_count = RowSum(BucketRows(b), "total_anomaly_score")
                  /\ \A f \in Metrics :
                        /\ stats[b][f].avg =
                               <<RowSum(BucketRows(b), f), Cardinality(BucketRows(b))>>
                        /\ \A i \in BucketRows(b) :
                              stats[b][f].min <= rows[i][f] /\ rows[i][f] <= stats[b][f].max
            /\ \A perm \in Permutations(DOMAIN rows) :
                  Summary(MachineStats(Permuted(rows, perm))) = Summary(stats)

C17_Witness ==
    /\ handler = "etl"
    /\ Done
    /\ Len(event.Records) = 3
    /\ event.Records[1].timestamp > event.Records[2].timestamp
    /\ DOMAIN etl.machine_stats = {<<1, 0>>, <<1, 1>>}
    /\ etl.machine_stats[<<1, 0>>].record_count = 2
    /\ etl.machine_stats[<<1, 0>>].temperature.avg = <<161000, 2>>
    /\ etl.machine_stats[<<1, 0>>].temperature.min = 80000
    /\ etl.machine_stats[<<1, 0>>].anomaly_count = 3

\* the inference handler got a prediction and went on to alert and metrics
Predicted ==
    /\ handler = "inference"
    /\ Done
    /\ invocations # <<>>
    /\ invocations[Len(invocations)] = "ok"

\* C18: a failing alert publish, metrics put or Kinesis/Firehose write is
\* absorbed -- the remaining sinks and records are still attempted and the
\* status code, prediction and processed count are those of a run without
\* the failure, in every handler that writes to a sink.
C18_SinkFailuresAbsorbed ==
    /\ Predicted
       => /\ response.statusCode = 200
          /\ response.prediction = prediction
          /\ Len(cwLog) = 1
    /\ (handler = "transformer" /\ Done /\ processed_records # <<>>)
       => /\ response.statusCode = 200
          /\ response.processed_records = Len(processed_records)
          /\ Len(kinesisLog) = Len(processed_records)
          /\ Len(firehoseLog) = Len(processed_records)
    /\ (handler = "iot_event" /\ Done /\ event.has
          /\ \A i \in DOMAIN event.Records : WellFormed(event.Records[i]))
       => /\ response.statusCode = 200
          /\ Len(firehoseLog) = Len(event.Records)

\* C19: severity is high exactly when the prediction is 1 and normal
\* otherwise, wherever a severity is produced; no alert is published for a
\* prediction other than 1 and at most one alert per handled reading.
C19_SeverityTiedToVerdict ==
    /\ (handler = "postprocess" /\ Done)
       => /\ result.val.prediction = event.prediction.v
          /\ result.val.severity = "high" <=> event.prediction = Num(1)
          /\ result.val.severity = "normal" <=> event.prediction # Num(1)
    /\ handler = "inference"
       => /\ Len(snsLog) <= 1
          /\ prediction # Num(1) => snsLog = <<>>
          /\ \A j \in DOMAIN snsLog :
                /\ snsLog[j].prediction = Num(1)
                /\ snsLog[j].severity = "high"
                /\ snsLog[j].machine_id = machine_id

C19_Witness ==
    /\ Predicted
    /\ response.prediction = Num(1)
    /\ Len(snsLog) = 1
    /\ snsLog[1].severity = "high"
    /\ snsLog[1].delivered

\* the other rows of the machine of output row i
SameMachine(out, i) ==
    {j \in DOMAIN out : j # i /\ out[j].row.machine_id = out[i].row.machine_id}

\* row j of the same machine immediately precedes row i in timestamp order
\* (rows with equal timestamps may come in either order)
Precedes(out, j, i) ==
    /\ j \in SameMachine(out, i)
    /\ out[j].row.timestamp <= out[i].row.timestamp
    /\ \A k \in SameMachine(out, i) :
          ~(out[j].row.timestamp < out[k].row.timestamp
              /\ out[k].row.timestamp < out[i].row.timestamp)

\* C20: the lag features of a reading are the values of the reading of the
\* same machine that immediately precedes it in event-timestamp order and
\* are absent for the machine's first reading; each diff is the current
\* value minus the lag and is absent with it; rows of other machines play
\* no part.
C20_LagPerMachine ==
    (handler = "etl" /\ Done) =>
        LET out == etl.processed_data IN
        /\ \A i \in DOMAIN out :
              /\ \/ /\ out[i].temp_lag_1 = None
                    /\ out[i].vib_lag_1 = None
                    /\ out[i].pressure_lag_1 = None
                    /\ \A j \in SameMachine(out, i) :
                          out[j].row.timestamp >= out[i].row.timestamp
                 \/ \E j \in DOMAIN out :
                       /\ Precedes(out, j, i)
                       /\ out[i].temp_lag_1 = Num(out[j].row.temperature)
                       /\ out[i].vib_lag_1 = Num(out[j].row.vibration)
                       /\ out[i].pressure_lag_1 = Num(out[j].row.pressure)
              /\ out[i].temp_diff =
                     (IF out[i].temp_lag_1 = None THEN None
                      ELSE Num(out[i].row.temperature - out[i].temp_lag_1.v))
              /\ out[i].vib_diff =
                     (IF out[i].vib_lag_1 = None THEN None
                      ELSE Num(out[i].row.vibration - out[i].vib_lag_1.v))
              /\ out[i].pressure_diff =
                     (IF out[i].pressure_lag_1 = None THEN None
                      ELSE Num(out[i].row.pressure - out[i].pressure_lag_1.v))
        /\ \A i \in DOMAIN out :
              Cardinality({j \in SameMachine(out, i) \cup {i} :
                              out[j].temp_lag_1 = None}) = 1

C20_Witness ==
    /\ handler = "etl"
    /\ Done
    /\ Len(event.Records) = 3
    /\ \A i \in 1..3 : event.Records[i].machine_id = 1
    /\ event.Records[1].timestamp = 3610
    /\ event.Records[2].timestamp = 10
    /\ event.Records[3].timestamp = 20
    /\ etl.processed_data[2].temp_lag_1 = None
    /\ etl.processed_data[2].temp_diff = None
    /\ etl.processed_data[3].temp_lag_1 = Num(80000)
    /\ etl.processed_data[3].temp_diff = Num(1000)
    /\ etl.processed_data[1].temp_lag_1 = Num(81000)
    /\ etl.processed_data[1].pressure_diff = Num(-1000)

\* C21: the SageMaker entry points terminate -- a call of model_fn,
\* predict_fn, input_fn or output_fn, resolved to the module's final
\* definition, returns a result and never calls itself again.
C21_EntryPointsTerminate ==
    handler = "sagemaker" =>
        /\ frames <= 1
        /\ Done => (result.function = event.function /\ result.val = "returned")

\* C22: the body output_fn produces for a prediction with its default
\* accept type 'application/json' is parsed by invoke_sagemaker_endpoint
\* into the same 0/1 label without raising: such a reply never counts as a
\* failed attempt.
HealthyReplies == {output_fn(p, "application/json") : p \in {0, 1}}

C22_ResponseCompatible ==
    handler = "inference" =>
        \A i \in DOMAIN replies :
            replies[i] \in HealthyReplies =>
                /\ invocations[i] = "ok"
                /\ prediction = Num(replies[i].v)

\* the rows of bucket b that the rules mark as anomalous
AnomalousRows(b) == {i \in BucketRows(b) : EtlInput[i].total_anomaly_score > 0}

\* the hourly buckets of a machine and day
BucketsOf(stats, d) == {b \in DOMAIN stats : b[1] = d[1] /\ b[2] \div 24 = d[2]}

RECURSIVE AnomalyCountSum(_, _)
AnomalyCountSum(stats, B) ==
    IF B = {} THEN 0
    ELSE LET b == CHOOSE x \in B : TRUE
         IN  stats[b].anomaly_count + AnomalyCountSum(stats, B \ {b})

\* C26: the anomaly_count of an hourly machine bucket is the number of its
\* readings with rule anomaly score > 0, so 0 <= anomaly_count <=
\* record_count, and over a machine's day it adds up to the anomaly_records
\* of the analytics view.
C26_AnomalyCount ==
    (handler = "etl" /\ Done) =>
        /\ \A b \in DOMAIN etl.machine_stats :
              /\ etl.machine_stats[b].anomaly_count = Cardinality(AnomalousRows(b))
              /\ 0 <= etl.machine_stats[b].anomaly_count
              /\ etl.machine_stats[b].anomaly_count <= etl.machine_stats[b].record_count
        /\ \A d \in DOMAIN etl.anomaly_summary :
              AnomalyCountSum(etl.machine_stats, BucketsOf(etl.machine_stats, d))
                  = etl.anomaly_summary[d].anomaly_records

\* C23: the validator runs before the enricher -- a decodable record that is
\* rejected is rejected with the validation error, never with an exception
\* raised inside enrichment.
C23_ValidateBeforeEnrich ==
    (handler = "transformer" /\ event.has) =>
        \A j \in DOMAIN errors :
            LET r == event.Records[errors[j].index] IN
            (r.src # "other" /\ r.ok) => errors[j].exc = "DataTransformationError"

OkCount == Cardinality({i \in DOMAIN invocations : invocations[i] = "ok"})

\* C24: the inference handler handles only the first record of the event --
\* the other records cause no validation, invocation, alert or metric, the
\* 200 response reports the machine_id and prediction of the first record,
\* and it is returned only after exactly one invocation succeeded, so its
\* prediction is never null.
C24_FirstRecordOnly ==
    handler = "inference" =>
        /\ OkCount <= 1
        /\ Len(snsLog) <= 1
        /\ Len(cwLog) <= 1
        /\ errors = <<>>
        /\ SinkEntries = <<>>
        /\ (InferenceDecoded /\ pc # "start")
           => /\ machine_id = ExtractMachineId(InferencePayload)
              /\ sensor_data = ExtractSensorData(InferencePayload)
              /\ response.message # "JSONDecodeError"
              /\ response.statusCode = 400
                    <=> ~Ok(validate_sensor_data(ExtractSensorData(InferencePayload)))
              /\ \A j \in DOMAIN snsLog :
                    snsLog[j].machine_id = ExtractMachineId(InferencePayload)
              /\ \A j \in DOMAIN cwLog :
                    cwLog[j].machine_id = ExtractMachineId(InferencePayload)
        /\ response.statusCode = 200
           => /\ OkCount = 1
              /\ invocations[Len(invocations)] = "ok"
              /\ response.prediction = prediction
              /\ response.prediction \in {Num(0), Num(1)}
              /\ response.machine_id = ExtractMachineId(InferencePayload)
              /\ Len(cwLog) = 1

C24_Witness ==
    /\ handler = "inference"
    /\ Done
    /\ Len(event.Records) = 3
    /\ event.Records[2] = Garbage
    /\ event.Records[3].payload # event.Records[1].payload
    /\ response.statusCode = 200
    /\ response.prediction = Num(1)
    /\ Len(invocations) = 1
    /\ Len(snsLog) = 1

\* the index in the event of the j-th accepted record
AcceptedAt(j) == CHOOSE i \in AcceptedIndexes : Rank(i) = j

\* C25: every successfully processed record is attempted exactly once on
\* Kinesis and exactly once on Firehose, in input order within each sink,
\* all Kinesis attempts before the first Firehose attempt; with no record
\* processed (no Records, empty Records, all rejected) nothing is attempted
\* and the response is 400.
C25_SinkOrder ==
    handler = "transformer" =>
        /\ Len(kinesisLog) <= Len(processed_records)
        /\ Len(firehoseLog) <= Len(processed_records)
        /\ \A j \in DOMAIN kinesisLog : kinesisLog[j].record = processed_records[j]
        /\ \A j \in DOMAIN firehoseLog : firehoseLog[j].record = processed_records[j]
        /\ firehoseLog # <<>> => Len(kinesisLog) = Len(processed_records)
        /\ SinkEntries # <<>> => LoopDone
        /\ LoopDone =>
              \A j \in DOMAIN processed_records :
                  SameReading(processed_records[j], event.Records[AcceptedAt(j)].payload)
        /\ (Done /\ response.statusCode = 200)
           => /\ processed_records # <<>>
              /\ Len(kinesisLog) = Len(processed_records)
              /\ Len(firehoseLog) = Len(processed_records)
        /\ (Done /\ (~event.has \/ AcceptedIndexes = {}))
           => /\ response.statusCode = 400
              /\ SinkEntries = <<>>

C25_Witness ==
    /\ handler = "transformer"
    /\ Done
    /\ response.statusCode = 200
    /\ Len(event.Records) = 3
    /\ RejectedIndexes = {2}
    /\ processed_records[1].machine_id # processed_records[2].machine_id
    /\ Len(kinesisLog) = 2
    /\ ~kinesisLog[1].delivered
    /\ Len(firehoseLog) = 2
    /\ firehoseLog[2].record = processed_records[2]

\* a processed record without what AttachStatistics added
WithoutStatistics(r) == [r EXCEPT !.stats = NoStats, !.trends = NoTrends]

C27_Frame ==
    handler = "transformer" =>
        /\ \A j \in DOMAIN processed_records :
              j < Len(processed_records) =>
                  processed_records[j] = WithoutStatistics(processed_records[j])
        /\ processed_records # <<>> =>
              /\ Latest.stats.present <=> (Len(processed_records) > 1 /\ LoopDone)
              /\ Latest.trends # NoTrends <=> (Len(processed_records) > 1 /\ LoopDone)
        /\ LoopDone =>
              \A j \in DOMAIN processed_records :
                  WithoutStatistics(processed_records[j]) =
                      enrich_sensor_data(event.Records[AcceptedAt(j)].payload).val
        /\ \A j \in DOMAIN SinkEntries :
              SinkEntries[j].record.stats.present => SinkEntries[j].record = Latest

\* C27: statistics and trends are attached only when more than one record
\* of the event was processed, and only to the last processed record; every
\* other emitted record is its payload plus the per-reading enrichment; and
\* no step of the transformer changes the payloads of the event.
C27_StatisticsOnLatestOnly ==
    /\ []C27_Frame
    /\ [][handler = "transformer" => event' = event]_vars

C27_Witness ==
    /\ handler = "transformer"
    /\ Done
    /\ Len(processed_records) = 2
    /\ Latest.stats.present
    /\ Latest.trends.trend = "insufficient_data"
    /\ ~processed_records[1].stats.present
    /\ ~kinesisLog[1].record.stats.present
    /\ firehoseLog[2].record.stats.present
    /\ ~Has(event.Records[AcceptedAt(1)].payload, "timestamp")
    /\ processed_records[1].timestamp = Num(NOW)

====
